---------------------------- MODULE Spec2Model ----------------------------
(***************************************************************************)
(* Payment distributor (darkbrewery/SimoDistribution).                     *)
(*                                                                         *)
(* The repository holds two variants of process_instruction:              *)
(*   "lib"      : src/src/lib.rs                                           *)
(*   "contract" : src/contract/contract.rs                                 *)
(* One invocation of one variant is modelled as a state machine whose pc   *)
(* follows the function body; every invoke() is one step because each can  *)
(* fail and end the function through the ? operator.                       *)
(*                                                                         *)
(* A u64 is a sequence of 8 bytes, least significant first, exactly the    *)
(* layout u64::from_le_bytes reads; all arithmetic is done on bytes so     *)
(* that the full 64-bit range (and the products beyond it) is exact.       *)
(***************************************************************************)
EXTENDS Integers, Sequences, FiniteSets, TLC

\* ------------------------------------------------------------ constants
TREASURY_PCT == 50
FIRST_REF_PCT == 20
SECOND_REF_PCT == 5
FIRST_REF_MAX == 200000000
SECOND_REF_MAX == 50000000
\* key of the system program (solana_program::system_program::ID); every
\* other account of the model has a key >= 1
SYSTEM_PROGRAM_ID == 0
\* the divisor of every share computation (amount * pct / 100)
PCT_DIVISOR == 100
\* radix of one byte of instruction_data
BYTE_RADIX == 256
\* number of bytes of a u64
U64_BYTES == 8
\* mutant of MIN_DATA_LEN: the length check asks for the two flag bytes too
MinDataLenWithFlags == 8 + 2
\* instruction_data.len() < 8 is rejected
MIN_DATA_LEN == 8

\* ------------------------------------------------------------ bounds
\* longest instruction_data drawn
MaxDataLen == 11
\* longest account list drawn
MaxAccounts == 7
\* the amounts 0..MaxSmallAmount are all drawn
MaxSmallAmount == 21

\* ------------------------------------------------------------ byte arithmetic
\* Natural numbers are byte sequences, least significant byte first.

RECURSIVE FromNatLen(_, _)
\* n as a little-endian number of len bytes (u64::to_le_bytes for len = 8)
FromNatLen(n, len) ==
    IF len = 0 THEN <<>>
    ELSE <<n % BYTE_RADIX>> \o FromNatLen(n \div BYTE_RADIX, len - 1)

\* u64::from(x) of a small constant
U64(n) == FromNatLen(n, U64_BYTES)

U64_MAX == [i \in 1..U64_BYTES |-> BYTE_RADIX - 1]

Front(x) == SubSeq(x, 1, Len(x) - 1)

RECURSIVE MulCarry(_, _, _)
\* x * k + carry, exact, one byte longer than x (k, carry < 256)
MulCarry(x, k, carry) ==
    IF x = <<>> THEN <<carry>>
    ELSE LET p == x[1] * k + carry
         IN  <<p % BYTE_RADIX>> \o MulCarry(Tail(x), k, p \div BYTE_RADIX)

\* the exact product x * k, Len(x) + 1 bytes
FullMul(x, k) == MulCarry(x, k, 0)

RECURSIVE DivRem(_, _, _)
\* (rem * 256^Len(x) + x) \div d, as Len(x) bytes (rem < d)
DivRem(x, d, rem) ==
    IF x = <<>> THEN <<>>
    ELSE LET n == Len(x)
             cur == rem * BYTE_RADIX + x[n]
         IN  Append(DivRem(Front(x), d, cur % d), cur \div d)

\* x / d, integer division truncating
DivSmall(x, d) == DivRem(x, d, 0)

RECURSIVE Less(_, _)
\* x < y for numbers of the same length
Less(x, y) ==
    IF x = <<>> THEN FALSE
    ELSE LET n == Len(x)
         IN  IF x[n] # y[n] THEN x[n] < y[n] ELSE Less(Front(x), Front(y))

\* u64::min
MinU64(x, y) == IF Less(y, x) THEN y ELSE x

RECURSIVE SubBorrow(_, _, _)
\* x - y - b modulo 256^Len(x), followed by one byte holding the borrow out
SubBorrow(x, y, b) ==
    IF x = <<>> THEN <<b>>
    ELSE LET d == x[1] - y[1] - b
         IN  <<(d + BYTE_RADIX) % BYTE_RADIX>>
                 \o SubBorrow(Tail(x), Tail(y), IF d < 0 THEN 1 ELSE 0)

RECURSIVE AddCarry(_, _, _)
\* x + y + c exactly, one byte longer than x (x, y of the same length)
AddCarry(x, y, c) ==
    IF x = <<>> THEN <<c>>
    ELSE LET s == x[1] + y[1] + c
         IN  <<s % BYTE_RADIX>> \o AddCarry(Tail(x), Tail(y), s \div BYTE_RADIX)

\* the low 8 bytes: the value a u64 keeps of a result
Low64(x) == SubSeq(x, 1, U64_BYTES)
\* TRUE when the exact result does not fit the u64 (or the borrow is set)
Carried(x) == x[U64_BYTES + 1] # 0

\* u64 `*` by a small constant: [value, overflow]
MulU64(x, k) == [value |-> Low64(FullMul(x, k)), overflow |-> Carried(FullMul(x, k))]
\* u64 `-`: [value, overflow]
SubU64(x, y) == [value |-> Low64(SubBorrow(x, y, 0)), overflow |-> Carried(SubBorrow(x, y, 0))]
\* u64 `+`: [value, overflow]
AddU64(x, y) == [value |-> Low64(AddCarry(x, y, 0)), overflow |-> Carried(AddCarry(x, y, 0))]

Zero64 == U64(0)


\* ------------------------------------------------------------ share computation
NoShare == [value |-> Zero64, overflow |-> FALSE]

\* amount * u64::from(pct) / 100
PctOf(amt, pct) ==
    LET m == MulU64(amt, pct)
    IN  [value |-> DivSmall(m.value, PCT_DIVISOR), overflow |-> m.overflow]

\* (amount * u64::from(pct) / 100).min(cap)
CappedPctOf(amt, pct, cap) ==
    LET p == PctOf(amt, pct)
    IN  [value |-> MinU64(p.value, U64(cap)), overflow |-> p.overflow]

\* lib.rs "Calculate amounts": the four shares as the wrapping arithmetic
\* yields them, and whether any operation left the u64 range
CalculateLib(amt, hf, hs) ==
    LET t  == PctOf(amt, TREASURY_PCT)
        f  == IF hf THEN CappedPctOf(amt, FIRST_REF_PCT, FIRST_REF_MAX) ELSE NoShare
        s  == IF hs THEN CappedPctOf(amt, SECOND_REF_PCT, SECOND_REF_MAX) ELSE NoShare
        d1 == SubU64(amt, t.value)
        d2 == SubU64(d1.value, f.value)
        d3 == SubU64(d2.value, s.value)
    IN  [treasury_amount   |-> t.value,
         first_ref_amount  |-> f.value,
         second_ref_amount |-> s.value,
         team_amount       |-> d3.value,
         overflow |-> t.overflow \/ f.overflow \/ s.overflow
                         \/ d1.overflow \/ d2.overflow \/ d3.overflow]

\* mutant of CalculateContract: second_ref_portion is left out of team_amount
CalculateContractWithoutPortion(amt, hf, hs) == CalculateLib(amt, hf, hs)

\* contract.rs "Calculate amounts": as lib.rs, plus second_ref_portion
CalculateContract(amt, hf, hs) ==
    LET t  == PctOf(amt, TREASURY_PCT)
        f  == IF hf THEN CappedPctOf(amt, FIRST_REF_PCT, FIRST_REF_MAX) ELSE NoShare
        s  == IF hs THEN CappedPctOf(amt, SECOND_REF_PCT, SECOND_REF_MAX) ELSE NoShare
        sp == IF ~hs THEN CappedPctOf(amt, SECOND_REF_PCT, SECOND_REF_MAX) ELSE NoShare
        d1 == SubU64(amt, t.value)
        d2 == SubU64(d1.value, f.value)
        d3 == SubU64(d2.value, s.value)
        d4 == AddU64(d3.value, sp.value)
    IN  [treasury_amount   |-> t.value,
         first_ref_amount  |-> f.value,
         second_ref_amount |-> s.value,
         team_amount       |-> d4.value,
         overflow |-> t.overflow \/ f.overflow \/ s.overflow \/ sp.overflow
                         \/ d1.overflow \/ d2.overflow \/ d3.overflow \/ d4.overflow]

Calculate(v, amt, hf, hs) ==
    IF v = "lib" THEN CalculateLib(amt, hf, hs) ELSE CalculateContract(amt, hf, hs)

\* ------------------------------------------------------------ input parsing
\* u64::from_le_bytes(instruction_data[0..8])
FromLeBytes(data) == [i \in 1..U64_BYTES |-> data[i]]

\* instruction_data.get(i).map_or(false, |&flag| flag != 0), i counted from 0
FlagAt(data, i) == IF i + 1 <= Len(data) THEN data[i + 1] # 0 ELSE FALSE

\* ------------------------------------------------------------ account extraction
\* mutant of RefSlots: both referrer accounts are read whatever the flags
RefSlotsIgnoringFlags(v, hf, hs) == 2

\* Number of next_account_info calls made before system_program's
RefSlots(v, hf, hs) ==
    IF v = "lib" THEN 2
    ELSE (IF hf THEN 1 ELSE 0) + (IF hs THEN 1 ELSE 0)

\* position in accounts (from 1) of each account the variant extracts;
\* 0 when the variant does not extract it
FirstRefPos(v, hf) == IF v = "lib" \/ hf THEN 4 ELSE 0
SecondRefPos(v, hf, hs) ==
    IF v = "lib" THEN 5
    ELSE IF hs THEN (IF hf THEN 5 ELSE 4) ELSE 0
SystemProgramPos(v, hf, hs) == 4 + RefSlots(v, hf, hs)

\* Option<&AccountInfo> as a sequence of at most one key
OptKey(accts, pos) == IF pos = 0 THEN <<>> ELSE <<accts[pos]>>

\* ------------------------------------------------------------ inputs
Variants == {"lib", "contract"}
FlagBytes == {0, 1, 255}

Succ64(x) == Low64(AddCarry(x, U64(1), 0))

\* the largest amount whose product with TREASURY_PCT fits the u64
MaxSafeAmount == DivSmall(U64_MAX, TREASURY_PCT)

\* 2^62 + 200: amount * 20 is 5 * 2^64 + 4000, which wraps to 4000
WrappingAmount ==
    [i \in 1..U64_BYTES |-> IF i = U64_BYTES THEN 64 ELSE IF i = 1 THEN 200 ELSE 0]

BoundaryAmounts ==
    { U64(99), U64(100), U64(1000000),
      U64(999999999), U64(1000000000), U64(1000000005), U64(1000000020),
      U64(2000000000),
      MaxSafeAmount, Succ64(MaxSafeAmount),
      Succ64(DivSmall(U64_MAX, FIRST_REF_PCT)),
      WrappingAmount,
      U64_MAX }

Amounts == { U64(n) : n \in 0..MaxSmallAmount } \cup BoundaryAmounts

\* bytes appended after the two flag bytes ("bytes 10+ are ignored")
Filler(n) == [i \in 1..n |-> 7]

InstructionDatas ==
    { SubSeq(a \o <<b8, b9>> \o Filler(MaxDataLen - 10), 1, len) :
        a \in Amounts, b8 \in FlagBytes, b9 \in FlagBytes, len \in 0..MaxDataLen }

\* account lists: n accounts with distinct keys 1..n, the one at position p
\* (if p > 0) being the system program
AccountLists ==
    { [i \in 1..n |-> IF i = p THEN SYSTEM_PROGRAM_ID ELSE i] :
        n \in 0..MaxAccounts, p \in 0..MaxAccounts }

\* ------------------------------------------------------------ state
VARIABLES
    variant,            \* which file's process_instruction runs
    overflow_checks,    \* build profile: TRUE = overflow panics, FALSE = wraps
    instruction_data,   \* argument
    accounts,           \* argument (keys of the AccountInfos)
    pc,                 \* position in process_instruction
    amount, has_first_referrer, has_second_referrer,
    first_referrer, second_referrer, system_program,
    treasury_amount, first_ref_amount, second_ref_amount, team_amount,
    transfers,          \* the invoke() calls made so far, in order
    result              \* "Running", "Ok", or the error / panic returned

vars == <<variant, overflow_checks, instruction_data, accounts, pc,
          amount, has_first_referrer, has_second_referrer,
          first_referrer, second_referrer, system_program,
          treasury_amount, first_ref_amount, second_ref_amount, team_amount,
          transfers, result>>

inputs == <<variant, overflow_checks, instruction_data, accounts>>
parsed == <<amount, has_first_referrer, has_second_referrer>>
extracted == <<first_referrer, second_referrer, system_program>>
shares == <<treasury_amount, first_ref_amount, second_ref_amount, team_amount>>

Init ==
    /\ variant \in Variants
    /\ overflow_checks \in BOOLEAN
    /\ instruction_data \in InstructionDatas
    /\ accounts \in AccountLists
    /\ pc = "parse"
    /\ amount = Zero64
    /\ has_first_referrer = FALSE
    /\ has_second_referrer = FALSE
    /\ first_referrer = <<>>
    /\ second_referrer = <<>>
    /\ system_program = <<>>
    /\ treasury_amount = Zero64
    /\ first_ref_amount = Zero64
    /\ second_ref_amount = Zero64
    /\ team_amount = Zero64
    /\ transfers = <<>>
    /\ result = "Running"

\* return Err(e) / panic: the function ends
Return(r) == pc' = "done" /\ result' = r

\* "Parse instruction data"
ParseInstruction ==
    /\ pc = "parse"
    /\ IF Len(instruction_data) < MIN_DATA_LEN
       THEN /\ Return("InvalidInstructionData")
            /\ UNCHANGED parsed
       ELSE /\ amount' = FromLeBytes(instruction_data)
            /\ has_first_referrer' = FlagAt(instruction_data, 8)
            /\ has_second_referrer' = FlagAt(instruction_data, 9)
            /\ pc' = "accounts"
            /\ UNCHANGED result
    /\ UNCHANGED <<inputs, extracted, shares, transfers>>

\* "Extract accounts" and "Verify system program ID"
ExtractAccounts ==
    /\ pc = "accounts"
    /\ LET hf  == has_first_referrer
           hs  == has_second_referrer
           sys == SystemProgramPos(variant, hf, hs)
       IN  IF Len(accounts) < sys
           THEN /\ Return("NotEnoughAccountKeys")
                /\ UNCHANGED extracted
           ELSE /\ first_referrer' = OptKey(accounts, FirstRefPos(variant, hf))
                /\ second_referrer' = OptKey(accounts, SecondRefPos(variant, hf, hs))
                /\ system_program' = <<accounts[sys]>>
                /\ IF accounts[sys] # SYSTEM_PROGRAM_ID
                   THEN Return("IncorrectProgramId")
                   ELSE pc' = "calculate" /\ UNCHANGED result
    /\ UNCHANGED <<inputs, parsed, shares, transfers>>

\* "Calculate amounts"
CalculateAmounts ==
    /\ pc = "calculate"
    /\ LET c == Calculate(variant, amount, has_first_referrer, has_second_referrer)
       IN  IF c.overflow /\ overflow_checks
           THEN /\ Return("Panic")
                /\ UNCHANGED shares
           ELSE /\ treasury_amount' = c.treasury_amount
                /\ first_ref_amount' = c.first_ref_amount
                /\ second_ref_amount' = c.second_ref_amount
                /\ team_amount' = c.team_amount
                /\ pc' = "treasury"
                /\ UNCHANGED result
    /\ UNCHANGED <<inputs, parsed, extracted, transfers>>

\* mutant of Invoke: the Result of invoke() is dropped instead of propagated
InvokeIgnoringFailure(role, to, lamports, ok, next, res) ==
    /\ transfers' = Append(transfers,
                           [role |-> role, from |-> accounts[1], to |-> to,
                            lamports |-> lamports, ok |-> ok])
    /\ pc' = next
    /\ result' = res

\* invoke(&system_instruction::transfer(payer.key, to, lamports), ..)?
\* ok is the outcome of the cross-program call
Invoke(role, to, lamports, ok, next, res) ==
    /\ transfers' = Append(transfers,
                           [role |-> role, from |-> accounts[1], to |-> to,
                            lamports |-> lamports, ok |-> ok])
    /\ IF ok THEN pc' = next /\ result' = res
             ELSE Return("TransferFailed")

InvokeTreasury ==
    /\ pc = "treasury"
    /\ \E ok \in BOOLEAN :
           Invoke("Treasury", accounts[2], treasury_amount, ok, "team", result)
    /\ UNCHANGED <<inputs, parsed, extracted, shares>>

InvokeTeam ==
    /\ pc = "team"
    /\ \E ok \in BOOLEAN :
           Invoke("Team", accounts[3], team_amount, ok, "first", result)
    /\ UNCHANGED <<inputs, parsed, extracted, shares>>

\* mutant of FirstReferrerPaid: the first_ref_amount > 0 test is missing
FirstReferrerPaidWhateverAmount ==
    IF variant = "lib" THEN has_first_referrer ELSE first_referrer # <<>>

\* lib.rs: has_first_referrer && first_ref_amount > 0
\* contract.rs: if let Some(first_ref) = first_referrer { if first_ref_amount > 0
FirstReferrerPaid ==
    /\ IF variant = "lib" THEN has_first_referrer ELSE first_referrer # <<>>
    /\ Less(Zero64, first_ref_amount)

SecondReferrerPaid ==
    /\ IF variant = "lib" THEN has_second_referrer ELSE second_referrer # <<>>
    /\ Less(Zero64, second_ref_amount)

InvokeFirstReferrer ==
    /\ pc = "first"
    /\ IF FirstReferrerPaid
       THEN \E ok \in BOOLEAN :
                Invoke("FirstReferrer", first_referrer[1], first_ref_amount, ok, "second", result)
       ELSE pc' = "second" /\ UNCHANGED <<transfers, result>>
    /\ UNCHANGED <<inputs, parsed, extracted, shares>>

\* the last transfer and the final Ok(())
InvokeSecondReferrer ==
    /\ pc = "second"
    /\ IF SecondReferrerPaid
       THEN \E ok \in BOOLEAN :
                Invoke("SecondReferrer", second_referrer[1], second_ref_amount, ok, "done", "Ok")
       ELSE Return("Ok") /\ UNCHANGED transfers
    /\ UNCHANGED <<inputs, parsed, extracted, shares>>

Next ==
    \/ ParseInstruction
    \/ ExtractAccounts
    \/ CalculateAmounts
    \/ InvokeTreasury
    \/ InvokeTeam
    \/ InvokeFirstReferrer
    \/ InvokeSecondReferrer

Spec == Init /\ [][Next]_vars


\* ------------------------------------------------------------ exact arithmetic for the properties
\* Numbers of any length, compared and added as naturals (no wrapping).
Pad(x, n) == x \o [i \in 1..(n - Len(x)) |-> 0]
Wider(x, y) == IF Len(x) < Len(y) THEN Len(y) ELSE Len(x)
NatEq(x, y) == Pad(x, Wider(x, y)) = Pad(y, Wider(x, y))
NatLess(x, y) == Less(Pad(x, Wider(x, y)), Pad(y, Wider(x, y)))
NatLeq(x, y) == ~NatLess(y, x)
NatAdd(x, y) == AddCarry(Pad(x, Wider(x, y)), Pad(y, Wider(x, y)), 0)
NatMin(x, y) == IF NatLess(y, x) THEN y ELSE x

\* the exact value of amt * pct / 100, no wrapping
ExactPct(amt, pct) == DivSmall(FullMul(amt, pct), PCT_DIVISOR)
\* amt * pct does not fit the u64
ProductOverflows(amt, pct) == Carried(FullMul(amt, pct))

RECURSIVE TotalLamports(_)
\* exact sum of the lamports of a sequence of transfers
TotalLamports(ts) ==
    IF ts = <<>> THEN <<0>> ELSE NatAdd(ts[1].lamports, TotalLamports(Tail(ts)))

\* the (role, amount) view of the transfers issued
PlanOf(ts) == [i \in 1..Len(ts) |-> <<ts[i].role, ts[i].lamports>>]

\* the share variables hold the result of "Calculate amounts"
SharesComputed == pc \in {"treasury", "team", "first", "second"} \/ transfers # <<>>
\* the instruction data has been parsed into amount and the two flags
Parsed == pc # "parse" /\ result # "InvalidInstructionData"


\* ============================================================ claims

\* ------------------------------------------------------------ C1
\* C1 (conservation): when process_instruction returns Ok, the exact sum of
\* the lamports of all transfers it issued equals amount.
C1_Conservation ==
    result = "Ok" => NatEq(TotalLamports(transfers), amount)

\* ------------------------------------------------------------ C2
\* C2 (no hidden redirection): once the shares are computed, team_amount is
\* exactly amount - treasury_amount - first_ref_amount - second_ref_amount,
\* an absent referrer's amount being 0.
C2_NoHiddenRedirection ==
    SharesComputed =>
        /\ NatEq(NatAdd(NatAdd(team_amount, treasury_amount),
                        NatAdd(first_ref_amount, second_ref_amount)),
                 amount)
        /\ ~has_first_referrer => first_ref_amount = Zero64
        /\ ~has_second_referrer => second_ref_amount = Zero64

\* ------------------------------------------------------------ C3
\* C3 (overflow safety): when amount * 50 (the widest of the three products,
\* always computed) does not fit the u64, no share is computed from the
\* wrapped product, no transfer is issued and the invocation does not
\* return Ok.
C3_OverflowRejected ==
    (Parsed /\ ProductOverflows(amount, TREASURY_PCT)) =>
        /\ ~SharesComputed
        /\ transfers = <<>>
        /\ result # "Ok"

\* ------------------------------------------------------------ C4
\* C4 as stated (malformed input): every instruction_data shorter than 10
\* bytes is rejected before any share is computed and no transfer is issued.
C4_ShorterThanTenRejected ==
    Len(instruction_data) < 10 =>
        /\ ~SharesComputed
        /\ transfers = <<>>
        /\ result # "Ok"

\* C4 as amended: every instruction_data shorter than 8 bytes is rejected
\* with InvalidInstructionData before any account is read or share
\* computed, and no transfer is issued; with 8 or 9 bytes the request is not
\* rejected as malformed and each missing flag byte reads as false.
C4_ShorterThanEightRejected ==
    /\ (Len(instruction_data) < 8 /\ pc # "parse") =>
           /\ pc = "done"
           /\ result = "InvalidInstructionData"
           /\ transfers = <<>>
           /\ system_program = <<>>
           /\ ~SharesComputed
    /\ (Len(instruction_data) \in {8, 9} /\ pc # "parse") =>
           /\ result # "InvalidInstructionData"
           /\ amount = SubSeq(instruction_data, 1, 8)
           /\ ~has_second_referrer
           /\ Len(instruction_data) = 8 => ~has_first_referrer
           /\ Len(instruction_data) = 9 =>
                  (has_first_referrer <=> instruction_data[9] # 0)

\* a 7-byte instruction_data was rejected
C4_Witness ==
    /\ Len(instruction_data) = 7
    /\ pc = "done"
    /\ result = "InvalidInstructionData"
    /\ transfers = <<>>

\* ------------------------------------------------------------ C5
\* C5 (cap enforcement): once the shares are computed, a present first
\* referrer's share is min(amount*20/100, 200_000_000) and a present second
\* referrer's share is min(amount*5/100, 50_000_000), the products being
\* the exact ones.
C5_CapEnforcement ==
    SharesComputed =>
        /\ has_first_referrer =>
               NatEq(first_ref_amount,
                     NatMin(ExactPct(amount, FIRST_REF_PCT), U64(FIRST_REF_MAX)))
        /\ has_second_referrer =>
               NatEq(second_ref_amount,
                     NatMin(ExactPct(amount, SECOND_REF_PCT), U64(SECOND_REF_MAX)))

\* ------------------------------------------------------------ C6
\* the transfers a successful invocation must have issued, from the flags
\* and the shares
ExpectedPlan ==
    <<  <<"Treasury", treasury_amount>>, <<"Team", team_amount>>  >>
    \o (IF has_first_referrer /\ first_ref_amount # Zero64
        THEN << <<"FirstReferrer", first_ref_amount>> >> ELSE <<>>)
    \o (IF has_second_referrer /\ second_ref_amount # Zero64
        THEN << <<"SecondReferrer", second_ref_amount>> >> ELSE <<>>)

\* C6 (transfer order and inclusion): a successful invocation issued
\* Treasury, Team, then FirstReferrer iff the flag is set and the share is
\* positive, then SecondReferrer likewise; with amount 0 that is exactly
\* [Treasury(0), Team(0)]. At any
\* moment the transfers issued are a prefix of that sequence.
C6_TransferOrder ==
    /\ result = "Ok" =>
           /\ PlanOf(transfers) = ExpectedPlan
           /\ amount = Zero64 =>
                  PlanOf(transfers) = << <<"Treasury", Zero64>>, <<"Team", Zero64>> >>
    /\ SharesComputed =>
           /\ Len(transfers) <= Len(ExpectedPlan)
           /\ PlanOf(transfers) = SubSeq(ExpectedPlan, 1, Len(transfers))

\* amount 0 with both flags set returned Ok
C6_Witness ==
    /\ result = "Ok"
    /\ amount = Zero64
    /\ has_first_referrer
    /\ has_second_referrer
    /\ Len(transfers) = 2

\* ------------------------------------------------------------ C7
\* C7 (no overshoot): once the shares are computed, each of treasury_amount,
\* team_amount, first_ref_amount and second_ref_amount is at most amount.
C7_NoOvershoot ==
    SharesComputed =>
        /\ NatLeq(treasury_amount, amount)
        /\ NatLeq(team_amount, amount)
        /\ NatLeq(first_ref_amount, amount)
        /\ NatLeq(second_ref_amount, amount)

\* ------------------------------------------------------------ C8
\* accounts the request needs for payer, treasury, team and each flagged
\* referrer
FlaggedRecipients ==
    3 + (IF has_first_referrer THEN 1 ELSE 0) + (IF has_second_referrer THEN 1 ELSE 0)

\* a flagged referrer's account is missing: the request was stopped with
\* NotEnoughAccountKeys and no transfer
C8_MissingRecipientRejected ==
    (Parsed /\ pc # "accounts"
        /\ (has_first_referrer \/ has_second_referrer)
        /\ Len(accounts) < FlaggedRecipients) =>
            /\ pc = "done"
            /\ result = "NotEnoughAccountKeys"
            /\ transfers = <<>>

\* the account in the system-program position is not the system program:
\* the request was stopped with IncorrectProgramId and no transfer
C8_WrongSystemProgramRejected ==
    (system_program # <<>> /\ system_program[1] # SYSTEM_PROGRAM_ID) =>
        /\ pc = "done"
        /\ result = "IncorrectProgramId"
        /\ transfers = <<>>

\* a request without referrers, given payer, treasury, team and the system
\* program, passes account extraction
FourAccountsSuffice ==
    (Parsed /\ pc # "accounts"
        /\ ~has_first_referrer /\ ~has_second_referrer
        /\ Len(accounts) >= 4 /\ accounts[4] = SYSTEM_PROGRAM_ID) =>
            result \notin {"NotEnoughAccountKeys", "IncorrectProgramId"}

\* C8 as stated (recipient resolution): a flagged referrer whose account is
\* missing, or a wrong system program, is an error before any transfer; and
\* a request with both flags false needs only the payer, treasury, team and
\* system-program accounts.
C8_RecipientResolution ==
    /\ C8_MissingRecipientRejected
    /\ C8_WrongSystemProgramRejected
    /\ FourAccountsSuffice

\* C8 as amended: the two error cases hold for both variants; the four
\* accounts suffice for a request without referrers in contract.rs only,
\* while lib.rs reads six accounts whatever the flags and returns
\* NotEnoughAccountKeys when given fewer.
C8_RecipientResolutionAmended ==
    /\ C8_MissingRecipientRejected
    /\ C8_WrongSystemProgramRejected
    /\ variant = "contract" => FourAccountsSuffice
    /\ (variant = "lib" /\ Parsed /\ pc # "accounts" /\ Len(accounts) < 6) =>
           /\ pc = "done"
           /\ result = "NotEnoughAccountKeys"
           /\ transfers = <<>>

\* contract.rs, second referrer flagged, only payer, treasury and team given
C8_Witness ==
    /\ variant = "contract"
    /\ has_second_referrer
    /\ Len(accounts) = 3
    /\ pc = "done"
    /\ result = "NotEnoughAccountKeys"

\* ------------------------------------------------------------ C9
\* C9 (fail fast): a failed transfer is the last one issued and the
\* invocation has ended with that error; Ok is returned only when every
\* transfer of the plan was issued and succeeded.
C9_FailFast ==
    /\ \A i \in 1..Len(transfers) :
           ~transfers[i].ok =>
               /\ i = Len(transfers)
               /\ pc = "done"
               /\ result = "TransferFailed"
    /\ result = "Ok" =>
           /\ \A i \in 1..Len(transfers) : transfers[i].ok
           /\ Len(transfers) = Len(ExpectedPlan)
    /\ result = "TransferFailed" =>
           /\ transfers # <<>>
           /\ ~transfers[Len(transfers)].ok

\* the Team transfer failed with both referrers still to be paid
C9_Witness ==
    /\ Len(transfers) = 2
    /\ ~transfers[2].ok
    /\ Len(ExpectedPlan) = 4
    /\ result = "TransferFailed"

\* ------------------------------------------------------------ C10
\* the shares of the variant that runs (from the state) and of the other
\* variant on the same request
SharesOf(v) ==
    IF v = variant
    THEN [treasury_amount |-> treasury_amount, first_ref_amount |-> first_ref_amount,
          second_ref_amount |-> second_ref_amount, team_amount |-> team_amount]
    ELSE Calculate(v, amount, has_first_referrer, has_second_referrer)

\* the transfers a variant issues for given shares when every invoke succeeds
PlanFor(sh) ==
    <<  <<"Treasury", sh.treasury_amount>>, <<"Team", sh.team_amount>>  >>
    \o (IF has_first_referrer /\ sh.first_ref_amount # Zero64
        THEN << <<"FirstReferrer", sh.first_ref_amount>> >> ELSE <<>>)
    \o (IF has_second_referrer /\ sh.second_ref_amount # Zero64
        THEN << <<"SecondReferrer", sh.second_ref_amount>> >> ELSE <<>>)

\* C10 (variant relation): without multiplication overflow the two variants
\* compute the same treasury, first-referrer and second-referrer amounts,
\* contract.rs's team amount is lib.rs's plus min(amount*5/100, 50_000_000)
\* when has_second_referrer is false and plus 0 when it is true, and their
\* (role, amount) transfer sequences are identical exactly when
\* has_second_referrer is true or amount < 20.
C10_VariantRelation ==
    (SharesComputed /\ ~ProductOverflows(amount, TREASURY_PCT)) =>
        LET l == SharesOf("lib")
            c == SharesOf("contract")
            extra == IF has_second_referrer THEN Zero64
                     ELSE NatMin(ExactPct(amount, SECOND_REF_PCT), U64(SECOND_REF_MAX))
        IN  /\ c.treasury_amount = l.treasury_amount
            /\ c.first_ref_amount = l.first_ref_amount
            /\ c.second_ref_amount = l.second_ref_amount
            /\ NatEq(c.team_amount, NatAdd(l.team_amount, extra))
            /\ (PlanFor(l) = PlanFor(c)) <=>
                   (has_second_referrer \/ NatLess(amount, U64(20)))
            /\ result = "Ok" => PlanOf(transfers) = PlanFor(SharesOf(variant))

\* contract.rs ran the first-only request of 1_000_000 and pays the team
\* 350_000 where lib.rs computes 300_000
C10_Witness ==
    /\ variant = "contract"
    /\ result = "Ok"
    /\ amount = U64(1000000)
    /\ has_first_referrer /\ ~has_second_referrer
    /\ team_amount = U64(350000)
    /\ SharesOf("lib").team_amount = U64(300000)


\* ------------------------------------------------------------ failing runs
\* The concrete runs named as failing inputs; each is a reachable state.

\* contract.rs, amount = 1_000_000, first referrer only: 500_000 + 350_000 +
\* 200_000 = 1_050_000 lamports leave the payer
FailingRun_C1 ==
    /\ variant = "contract"
    /\ amount = U64(1000000)
    /\ has_first_referrer /\ ~has_second_referrer
    /\ result = "Ok"
    /\ PlanOf(transfers) = << <<"Treasury", U64(500000)>>, <<"Team", U64(350000)>>,
                              <<"FirstReferrer", U64(200000)>> >>
    /\ NatEq(TotalLamports(transfers), U64(1050000))

\* contract.rs, amount = 1_000_000, first referrer only: Team = 350_000
FailingRun_C2 ==
    /\ variant = "contract"
    /\ amount = U64(1000000)
    /\ has_first_referrer /\ ~has_second_referrer
    /\ SharesComputed
    /\ treasury_amount = U64(500000)
    /\ first_ref_amount = U64(200000)
    /\ team_amount = U64(350000)

\* lib.rs built without overflow checks, amount = u64::MAX: the request
\* runs to Ok on shares computed from wrapped products
FailingRun_C3 ==
    /\ variant = "lib"
    /\ ~overflow_checks
    /\ amount = U64_MAX
    /\ result = "Ok"
    /\ transfers # <<>>
    /\ treasury_amount = DivSmall(Low64(FullMul(U64_MAX, TREASURY_PCT)), PCT_DIVISOR)
    /\ ~NatEq(treasury_amount, ExactPct(U64_MAX, TREASURY_PCT))

\* lib.rs built without overflow checks, amount = 2^62 + 200, first referrer
\* flagged: amount * 20 wraps to 4000 and the referrer is paid 40 lamports
\* where the cap of 200_000_000 is due
FailingRun_C5 ==
    /\ variant = "lib"
    /\ ~overflow_checks
    /\ amount = WrappingAmount
    /\ has_first_referrer
    /\ result = "Ok"
    /\ first_ref_amount = U64(40)
    /\ NatEq(NatMin(ExactPct(amount, FIRST_REF_PCT), U64(FIRST_REF_MAX)), U64(FIRST_REF_MAX))
    /\ \E i \in 1..Len(transfers) :
           transfers[i].role = "FirstReferrer" /\ transfers[i].lamports = U64(40)

\* contract.rs built without overflow checks, amount = floor(u64::MAX/50)+1,
\* no referrer: amount * 50 wraps to 34, treasury_amount is 0 and
\* team_amount is amount + 50_000_000
FailingRun_C7 ==
    /\ variant = "contract"
    /\ ~overflow_checks
    /\ amount = Succ64(MaxSafeAmount)
    /\ ~has_first_referrer /\ ~has_second_referrer
    /\ SharesComputed
    /\ treasury_amount = Zero64
    /\ NatEq(team_amount, NatAdd(amount, U64(SECOND_REF_MAX)))

=============================================================================
